---------------------------- MODULE Spec2Model ----------------------------
(***************************************************************************)
(* Model of visualizer.py: the Flask handlers index, filter_entities,      *)
(* upload_file, save_results and stats, the run-building loop of            *)
(* save_results and the statistics of stats.                                *)
(*                                                                          *)
(* A Python str is a sequence of one-character strings; text[i:j] is        *)
(* Slice(text, i, j).  The recognition pipeline nlp, displacy, fitz and     *)
(* python-docx are external: nlp(text) is a choice among the documents of   *)
(* NlpOutputs(text), a file's content is the sequence of its page or        *)
(* paragraph texts.                                                         *)
(***************************************************************************)
EXTENDS Integers, Sequences, FiniteSets, TLC

VARIABLES pc, request, calls, processed_doc, para, response, fs

vars == <<pc, request, calls, processed_doc, para, response, fs>>

-----------------------------------------------------------------------------
(* Bounds of the model *)

MaxLen == 3

MaxEnts == 2

MaxEntTokens == 2

MaxPages == 2

NumWorkers == 2

Workers == 1..NumWorkers

-----------------------------------------------------------------------------
(* Strings *)

Alphabet == {"a", "b", " "}

Whitespace == {" ", "\n", "\t"}

MinOf(S) == CHOOSE x \in S : \A y \in S : x <= y

MaxOf(S) == CHOOSE x \in S : \A y \in S : y <= x

\* Python text[i:j] for 0 <= i, j <= len(text)
Slice(text, i, j) == SubSeq(text, i + 1, j)

\* str.strip(): leading and trailing whitespace removed
Strip(s) ==
    LET keep == {i \in 1..Len(s) : s[i] \notin Whitespace}
    IN  IF keep = {} THEN <<>> ELSE SubSeq(s, MinOf(keep), MaxOf(keep))

UpperCase == <<"A", "B", "C", "D", "E", "F", "G", "H", "I", "J", "K", "L", "M",
               "N", "O", "P", "Q", "R", "S", "T", "U", "V", "W", "X", "Y", "Z">>

LowerCase == <<"a", "b", "c", "d", "e", "f", "g", "h", "i", "j", "k", "l", "m",
               "n", "o", "p", "q", "r", "s", "t", "u", "v", "w", "x", "y", "z">>

LowerChar(c) ==
    IF \E i \in 1..Len(UpperCase) : UpperCase[i] = c
    THEN LowerCase[CHOOSE i \in 1..Len(UpperCase) : UpperCase[i] = c]
    ELSE c

\* str.lower()
Lower(s) == [i \in 1..Len(s) |-> LowerChar(s[i])]

\* str.endswith(suffix)
EndsWith(s, suffix) ==
    /\ Len(s) >= Len(suffix)
    /\ SubSeq(s, Len(s) - Len(suffix) + 1, Len(s)) = suffix

RECURSIVE Concat(_)
\* "".join(seq of strings)
Concat(ss) == IF ss = <<>> THEN <<>> ELSE Head(ss) \o Concat(Tail(ss))

RECURSIVE StringsUpTo(_)
StringsUpTo(n) ==
    IF n = 0 THEN {<<>>}
    ELSE LET shorter == StringsUpTo(n - 1)
         IN  shorter \cup {Append(s, c) : s \in {t \in shorter : Len(t) = n - 1},
                                         c \in Alphabet}

\* the texts a request may carry
RawTexts == StringsUpTo(MaxLen)

-----------------------------------------------------------------------------
(* Label Style Registry *)

Gray == <<128, 128, 128>>

ENTITY_COLORS ==
    [l \in {"PERSON", "LIT_WORK", "ART_WORK", "ART_MOVEMENT", "ORG", "PLACE",
            "EVENT", "GENRE", "CHARACTER", "QUOTE", "AWARD", "PERIOD",
            "TECHNIQUE", "MOVIE_TV"} |->
        CASE l = "PERSON"       -> <<50, 205, 50>>
          [] l = "LIT_WORK"     -> <<0, 0, 255>>
          [] l = "ART_WORK"     -> <<0, 128, 0>>
          [] l = "ART_MOVEMENT" -> <<255, 165, 0>>
          [] l = "ORG"          -> <<128, 0, 128>>
          [] l = "PLACE"        -> <<0, 128, 128>>
          [] l = "EVENT"        -> <<0, 255, 255>>
          [] l = "GENRE"        -> <<255, 20, 147>>
          [] l = "CHARACTER"    -> <<165, 42, 42>>
          [] l = "QUOTE"        -> <<255, 215, 0>>
          [] l = "AWARD"        -> <<50, 205, 50>>
          [] l = "PERIOD"       -> <<255, 0, 255>>
          [] l = "TECHNIQUE"    -> <<75, 0, 130>>
          [] l = "MOVIE_TV"     -> <<148, 0, 211>>]

\* ENTITY_COLORS.get(label, RGBColor(128, 128, 128))
ExportColor(label) ==
    IF label \in DOMAIN ENTITY_COLORS THEN ENTITY_COLORS[label] ELSE Gray

-----------------------------------------------------------------------------
(* The recognition pipeline (external) *)

\* the labels the loaded model emits; DATE has no entry in ENTITY_COLORS
ModelLabels == {"PERSON", "DATE"}

\* the values of selected_entities a request may carry
SelectedSets == SUBSET ModelLabels

\* an entity covers at least one token and a token at least one character
EntsOn(text) ==
    {e \in [start_char : 0..Len(text), end_char : 0..Len(text),
            label : ModelLabels, ntok : 1..MaxEntTokens] :
        /\ e.start_char < e.end_char
        /\ e.ntok <= e.end_char - e.start_char}

RECURSIVE SeqsUpTo(_, _)
SeqsUpTo(S, n) ==
    IF n = 0 THEN {<<>>}
    ELSE LET shorter == SeqsUpTo(S, n - 1)
         IN  shorter \cup {Append(s, x) : s \in {t \in shorter : Len(t) = n - 1},
                                         x \in S}

\* the contract of doc.ents: ordered by start_char, mutually non-overlapping
SortedDisjoint(ents) ==
    \A i \in 1..Len(ents) - 1 : ents[i].end_char <= ents[i + 1].start_char

RECURSIVE SumSeq(_)
SumSeq(ns) == IF ns = <<>> THEN 0 ELSE Head(ns) + SumSeq(Tail(ns))

EntTokens(ents) == SumSeq([i \in 1..Len(ents) |-> ents[i].ntok])

\* token count and sentence lengths of a document
TokenShapes == {[ntokens |-> 0, sents |-> <<>>],
                [ntokens |-> 2, sents |-> <<2>>],
                [ntokens |-> 12, sents |-> <<5, 7>>]}

MakeDoc(text, ents, shape) ==
    [text |-> text, ents |-> ents, ntokens |-> shape.ntokens, sents |-> shape.sents]

\* nlp(""): no token, no entity, no sentence
EmptyDoc == MakeDoc(<<>>, <<>>, [ntokens |-> 0, sents |-> <<>>])

\* every document whose entities lie within the text, in any order
NlpAny(text) ==
    {MakeDoc(text, ents, shape) :
        ents \in SeqsUpTo(EntsOn(text), MaxEnts),
        shape \in {s \in TokenShapes : text = <<>> => s.ntokens = 0}}

RECURSIVE ContractEnts(_, _)
\* the entity lists of at most n entities that keep the contract of doc.ents
ContractEnts(text, n) ==
    IF n = 0 THEN {<<>>}
    ELSE LET shorter == ContractEnts(text, n - 1)
             longest == {t \in shorter : Len(t) = n - 1}
         IN  shorter \cup
             {Append(p[1], p[2]) :
                 p \in {q \in longest \X EntsOn(text) : SortedDisjoint(Append(q[1], q[2]))}}

\* nlp(text): the documents the pipeline may return under its contract, the
\* entities being spans of the document's tokens
NlpOutputs(text) ==
    {d \in {MakeDoc(text, ents, shape) :
                ents \in ContractEnts(text, MaxEnts),
                shape \in {s \in TokenShapes : text = <<>> => s.ntokens = 0}} :
        EntTokens(d.ents) <= d.ntokens}

-----------------------------------------------------------------------------
(* save_results: the runs of the paragraph *)

\* para.add_run(text): default formatting
PlainRun(t) == [text |-> t, bold |-> FALSE, rgb |-> <<>>, label |-> ""]

\* para.add_run(ent.text), bold, coloured; label records the entity's label
EntityRun(text, ent) ==
    [text |-> Slice(text, ent.start_char, ent.end_char), bold |-> TRUE,
     rgb |-> ExportColor(ent.label), label |-> ent.label]

GapRunsAlways(text, last_index, ent) ==
    <<PlainRun(Slice(text, last_index, ent.start_char))>>

\* if ent.start_char > last_index: para.add_run(text[last_index:ent.start_char])
GapRuns(text, last_index, ent) ==
    IF ent.start_char > last_index
    THEN <<PlainRun(Slice(text, last_index, ent.start_char))>>
    ELSE <<>>

EntityStepUnfiltered(text, acc, ent, selected_entities) ==
    [runs |-> acc.runs \o GapRuns(text, acc.last_index, ent)
                       \o <<EntityRun(text, ent)>>,
     last_index |-> ent.end_char]

EntityStepFlushing(text, acc, ent, selected_entities) ==
    IF ent.label \in selected_entities
    THEN [runs |-> acc.runs \o GapRuns(text, acc.last_index, ent)
                            \o <<EntityRun(text, ent)>>,
          last_index |-> ent.end_char]
    ELSE [runs |-> acc.runs \o GapRuns(text, acc.last_index, ent)
                            \o <<PlainRun(Slice(text, ent.start_char, ent.end_char))>>,
          last_index |-> ent.end_char]

\* one iteration of the loop over processed_doc.ents
EntityStep(text, acc, ent, selected_entities) ==
    IF ent.label \in selected_entities
    THEN [runs |-> acc.runs \o GapRuns(text, acc.last_index, ent)
                            \o <<EntityRun(text, ent)>>,
          last_index |-> ent.end_char]
    ELSE acc

RECURSIVE EntityLoop(_, _, _, _, _)
\* the loop from entity i on, with acc = (runs so far, last_index)
EntityLoop(text, ents, selected_entities, i, acc) ==
    IF i > Len(ents) THEN acc
    ELSE EntityLoop(text, ents, selected_entities, i + 1,
                    EntityStep(text, acc, ents[i], selected_entities))

TailRunsDropped(text, last_index) == <<>>

\* if last_index < len(text): para.add_run(text[last_index:])
TailRuns(text, last_index) ==
    IF last_index < Len(text)
    THEN <<PlainRun(Slice(text, last_index, Len(text)))>>
    ELSE <<>>

\* the runs of para after the loop and the remainder
BuildParagraph(text, ents, selected_entities) ==
    LET acc == EntityLoop(text, ents, selected_entities, 1,
                          [runs |-> <<>>, last_index |-> 0])
    IN  acc.runs \o TailRuns(text, acc.last_index)

RunTexts(runs) == Concat([i \in 1..Len(runs) |-> runs[i].text])

-----------------------------------------------------------------------------
(* stats: the report *)

RECURSIVE GCD(_, _)
GCD(a, b) == IF b = 0 THEN a ELSE GCD(b, a % b)

\* the value of a quotient, in lowest terms
Fraction(n, d) == [num |-> n \div GCD(n, d), den |-> d \div GCD(n, d)]

\* the int 0 of the else branches
Zero == [num |-> 0, den |-> 1]

\* a / b raises ZeroDivisionError when b = 0
ZeroDivisionError == [num |-> 0, den |-> 0]

\* Python a / b on non-negative ints
TrueDiv(a, b) == IF b = 0 THEN ZeroDivisionError ELSE Fraction(a, b)

CounterOfDistinct(labels) ==
    [l \in {labels[i] : i \in 1..Len(labels)} |-> 1]

\* Counter(labels): each label that occurs, with its number of occurrences
Counter(labels) ==
    [l \in {labels[i] : i \in 1..Len(labels)} |->
        Cardinality({i \in 1..Len(labels) : labels[i] = l})]

EntityDensityUnguarded(total_entities, token_count) ==
    TrueDiv(total_entities, token_count)

\* total_entities / token_count if token_count > 0 else 0
EntityDensity(total_entities, token_count) ==
    IF token_count > 0 THEN TrueDiv(total_entities, token_count) ELSE Zero

\* sum(sentence_lengths) / len(sentence_lengths) if sentence_lengths else 0
AvgSentenceLength(sentence_lengths) ==
    IF sentence_lengths # <<>>
    THEN TrueDiv(SumSeq(sentence_lengths), Len(sentence_lengths))
    ELSE Zero

\* the JSON body of stats for a document
StatsReport(doc) ==
    [entity_count |-> Len(doc.ents),
     entity_distribution |-> Counter([i \in 1..Len(doc.ents) |-> doc.ents[i].label]),
     token_count |-> doc.ntokens,
     entity_density |-> EntityDensity(Len(doc.ents), doc.ntokens),
     sentence_lengths |-> doc.sents,
     avg_sentence_length |-> AvgSentenceLength(doc.sents),
     named_entity_length_distribution |->
         [i \in 1..Len(doc.ents) |-> doc.ents[i].ntok]]

-----------------------------------------------------------------------------
(* filter_entities and index: the rendering (external) *)

\* displacy.render(doc, style="ent", options={"ents": ents, ...}): the text and
\* the entities whose label is among ents, each with its screen colour
displacy_render(doc, ents) ==
    LET shown(e) == e.label \in ents
    IN  [text |-> doc.text, marks |-> SelectSeq(doc.ents, shown)]

-----------------------------------------------------------------------------
(* upload_file: the file and the extractors *)

Pdf == <<".", "p", "d", "f">>

Docx == <<".", "d", "o", "c", "x">>

\* the file names a request may carry
FileNames ==
    {<<>>,
     <<"r", "e", "p", "o", "r", "t", ".", "t", "x", "t">>,
     <<"a", ".", "p", "d", "f">>,
     <<"A", ".", "P", "D", "F">>,
     <<"b", ".", "d", "o", "c", "x">>,
     <<"B", ".", "D", "o", "c", "X">>,
     <<"p", "d", "f">>,
     <<"c", ".", "p", "d", "f", ".", "d", "o", "c">>,
     <<".", "d", "o", "c", "x">>}

\* the page (or paragraph) texts a file may hold
FileContents ==
    SeqsUpTo({<<"a">>, <<" ", "b">>, <<"\n">>}, MaxPages)

RECURSIVE PdfText(_)
\* text = ""; for page in doc: text += page.get_text("text") + "\n"
PdfText(pages) ==
    IF pages = <<>> THEN <<>> ELSE Head(pages) \o <<"\n">> \o PdfText(Tail(pages))

extract_text_from_pdf(pages) == Strip(PdfText(pages))

RECURSIVE JoinLines(_)
\* "\n".join(para.text for para in doc.paragraphs)
JoinLines(paras) ==
    IF paras = <<>> THEN <<>>
    ELSE IF Len(paras) = 1 THEN Head(paras)
    ELSE Head(paras) \o <<"\n">> \o JoinLines(Tail(paras))

extract_text_from_docx(paras) == Strip(JoinLines(paras))

HasAllowedExtensionAny(filename) == TRUE

\* filename.endswith(".pdf") or filename.endswith(".docx")
HasAllowedExtension(filename) ==
    EndsWith(filename, Pdf) \/ EndsWith(filename, Docx)

-----------------------------------------------------------------------------
(* Requests and responses *)

NoRequest ==
    [handler |-> "none", text |-> <<>>, selected_entities |-> {},
     has_file |-> FALSE, filename |-> <<>>, file |-> <<>>]

TextRequest(h, raw, selected_entities) ==
    [handler |-> h, text |-> raw, selected_entities |-> selected_entities,
     has_file |-> FALSE, filename |-> <<>>, file |-> <<>>]

FileRequest(has_file, filename, file) ==
    [handler |-> "upload", text |-> <<>>, selected_entities |-> {},
     has_file |-> has_file, filename |-> filename, file |-> file]

NoResponse == [status |-> 0, body |-> [pending |-> TRUE]]

\* return jsonify(body), status
Respond(status, body) == [status |-> status, body |-> body]

Call(fn, arg) == [fn |-> fn, arg |-> arg]

IsFalsyNever(text) == FALSE

\* not text
IsFalsy(text) == text = <<>>

file_path == "Results.docx"

\* doc.save(file_path) on the file system files
Saved(files, path, runs) ==
    [p \in DOMAIN files \cup {path} |-> IF p = path THEN runs ELSE files[p]]

-----------------------------------------------------------------------------
(* The handlers *)

Init ==
    /\ pc = [w \in Workers |-> "idle"]
    /\ request = [w \in Workers |-> NoRequest]
    /\ calls = [w \in Workers |-> <<>>]
    /\ processed_doc = [w \in Workers |-> EmptyDoc]
    /\ para = [w \in Workers |-> <<>>]
    /\ response = [w \in Workers |-> NoResponse]
    /\ fs = <<>>

\* GET /
index(w) ==
    /\ pc[w] = "idle"
    /\ pc' = [pc EXCEPT ![w] = "done"]
    /\ request' = [request EXCEPT ![w] = TextRequest("index", <<>>, {})]
    /\ calls' = [calls EXCEPT ![w] = <<Call("nlp", <<>>)>>]
    /\ processed_doc' = [processed_doc EXCEPT ![w] = EmptyDoc]
    /\ response' = [response EXCEPT ![w] =
           Respond(200, [html |-> displacy_render(EmptyDoc, ModelLabels)])]
    /\ UNCHANGED <<para, fs>>

\* POST /filter
filter_entities(w, raw, selected_entities, doc) ==
    /\ pc[w] = "idle"
    /\ doc.text = Strip(raw)
    /\ pc' = [pc EXCEPT ![w] = "done"]
    /\ request' = [request EXCEPT ![w] = TextRequest("filter", raw, selected_entities)]
    /\ calls' = [calls EXCEPT ![w] = <<Call("nlp", Strip(raw))>>]
    /\ processed_doc' = [processed_doc EXCEPT ![w] = doc]
    /\ response' = [response EXCEPT ![w] =
           Respond(200, [html |-> displacy_render(doc, selected_entities)])]
    /\ UNCHANGED <<para, fs>>

\* POST /upload
upload_file(w, has_file, name, file) ==
    /\ pc[w] = "idle"
    /\ pc' = [pc EXCEPT ![w] = "done"]
    /\ request' = [request EXCEPT ![w] = FileRequest(has_file, name, file)]
    /\ LET filename == Lower(name)
       IN  IF ~has_file
           THEN /\ response' = [response EXCEPT ![w] =
                       Respond(400, [error |-> "No file provided"])]
                /\ UNCHANGED calls
           ELSE IF name = <<>>
           THEN /\ response' = [response EXCEPT ![w] =
                       Respond(400, [error |-> "No selected file"])]
                /\ UNCHANGED calls
           ELSE IF ~HasAllowedExtension(filename)
           THEN /\ response' = [response EXCEPT ![w] =
                       Respond(400, [error |->
                           "Invalid file format. Please upload a PDF or DOCX."])]
                /\ UNCHANGED calls
           ELSE IF EndsWith(filename, Pdf)
           THEN /\ calls' = [calls EXCEPT ![w] =
                       <<Call("file.read", <<>>), Call("extract_text_from_pdf", file)>>]
                /\ response' = [response EXCEPT ![w] =
                       Respond(200, [text |-> extract_text_from_pdf(file)])]
           ELSE IF EndsWith(filename, Docx)
           THEN /\ calls' = [calls EXCEPT ![w] =
                       <<Call("file.read", <<>>), Call("extract_text_from_docx", file)>>]
                /\ response' = [response EXCEPT ![w] =
                       Respond(200, [text |-> extract_text_from_docx(file)])]
           ELSE \* extracted_text is unbound: UnboundLocalError
                /\ calls' = [calls EXCEPT ![w] = <<Call("file.read", <<>>)>>]
                /\ response' = [response EXCEPT ![w] =
                       Respond(500, [error |-> "UnboundLocalError"])]
    /\ UNCHANGED <<processed_doc, para, fs>>

\* POST /save, up to the last para.add_run
save_results(w, raw, selected_entities, doc) ==
    /\ pc[w] = "idle"
    /\ doc.text = Strip(raw)
    /\ request' = [request EXCEPT ![w] = TextRequest("save", raw, selected_entities)]
    /\ LET text == Strip(raw)
       IN  IF IsFalsy(text)
           THEN /\ pc' = [pc EXCEPT ![w] = "done"]
                /\ response' = [response EXCEPT ![w] =
                       Respond(400, [error |-> "No content to save"])]
                /\ UNCHANGED <<calls, processed_doc, para>>
           ELSE /\ pc' = [pc EXCEPT ![w] = "save_built"]
                /\ calls' = [calls EXCEPT ![w] = <<Call("nlp", text)>>]
                /\ processed_doc' = [processed_doc EXCEPT ![w] = doc]
                /\ para' = [para EXCEPT ![w] =
                       BuildParagraph(text, doc.ents, selected_entities)]
                /\ UNCHANGED response
    /\ UNCHANGED fs

\* POST /save: doc.save(file_path)
doc_save(w) ==
    /\ pc[w] = "save_built"
    /\ pc' = [pc EXCEPT ![w] = "save_saved"]
    /\ fs' = Saved(fs, file_path, para[w])
    /\ UNCHANGED <<request, calls, processed_doc, para, response>>

\* POST /save: return jsonify({"success": True, "file_path": file_path})
save_return(w) ==
    /\ pc[w] = "save_saved"
    /\ pc' = [pc EXCEPT ![w] = "done"]
    /\ response' = [response EXCEPT ![w] =
           Respond(200, [success |-> TRUE, file_path |-> file_path])]
    /\ UNCHANGED <<request, calls, processed_doc, para, fs>>

\* POST /stats
stats(w, raw, doc) ==
    /\ pc[w] = "idle"
    /\ doc.text = Strip(raw)
    /\ pc' = [pc EXCEPT ![w] = "done"]
    /\ request' = [request EXCEPT ![w] = TextRequest("stats", raw, {})]
    /\ LET text == Strip(raw)
       IN  IF IsFalsy(text)
           THEN /\ response' = [response EXCEPT ![w] =
                       Respond(400, [error |-> "No text provided"])]
                /\ UNCHANGED <<calls, processed_doc>>
           ELSE /\ calls' = [calls EXCEPT ![w] = <<Call("nlp", text)>>]
                /\ processed_doc' = [processed_doc EXCEPT ![w] = doc]
                /\ LET report == StatsReport(doc)
                   IN  IF ZeroDivisionError \in
                              {report.entity_density, report.avg_sentence_length}
                       THEN response' = [response EXCEPT ![w] =
                                Respond(500, [error |-> "ZeroDivisionError"])]
                       ELSE response' = [response EXCEPT ![w] = Respond(200, report)]
    /\ UNCHANGED <<para, fs>>

-----------------------------------------------------------------------------
(* Specifications *)

\* a worker thread free to take a request
Idle(w) == pc[w] = "idle"

\* one request, served by one worker, the pipeline keeping its contract
Next ==
    \E w \in {MinOf(Workers)} :
        \/ index(w)
        \/ /\ Idle(w)
           /\ \E raw \in RawTexts : \E doc \in NlpOutputs(Strip(raw)) :
                  \E sel \in SelectedSets : filter_entities(w, raw, sel, doc)
        \/ /\ Idle(w)
           /\ \E has_file \in BOOLEAN, name \in FileNames, file \in FileContents :
                  /\ ~has_file => (name = <<>> /\ file = <<>>)
                  /\ upload_file(w, has_file, name, file)
        \/ /\ Idle(w)
           /\ \E raw \in RawTexts : \E doc \in NlpOutputs(Strip(raw)) :
                  \E sel \in SelectedSets : save_results(w, raw, sel, doc)
        \/ doc_save(w)
        \/ save_return(w)
        \/ /\ Idle(w)
           /\ \E raw \in RawTexts : \E doc \in NlpOutputs(Strip(raw)) :
                  stats(w, raw, doc)

Spec == Init /\ [][Next]_vars

\* the texts and documents of the concurrent /save requests
ConcTexts == {<<"a", "b">>, <<"b", "a">>}

ConcDocs(text) ==
    {d \in NlpOutputs(text) :
        /\ d.ntokens = 2
        /\ Len(d.ents) <= 1
        /\ \A i \in 1..Len(d.ents) : d.ents[i].label = "PERSON" /\ d.ents[i].ntok = 1}

\* simultaneous /save requests, one per worker thread
NextConc ==
    \E w \in Workers :
        \/ /\ Idle(w)
           /\ \E raw \in ConcTexts : \E doc \in ConcDocs(Strip(raw)) :
                  \E sel \in {{}, {"PERSON"}} : save_results(w, raw, sel, doc)
        \/ doc_save(w)
        \/ save_return(w)

SpecConc == Init /\ [][NextConc]_vars

\* one /save request, the pipeline's contract on doc.ents not assumed
NextUnchecked ==
    \E w \in {MinOf(Workers)} :
        \/ /\ Idle(w)
           /\ \E raw \in RawTexts : \E doc \in NlpAny(Strip(raw)) :
                  \E sel \in SelectedSets : save_results(w, raw, sel, doc)
        \/ doc_save(w)
        \/ save_return(w)

SpecUnchecked == Init /\ [][NextUnchecked]_vars

-----------------------------------------------------------------------------
(* Properties *)

\* the request of worker w, as the handler sees it
TextOf(w) == Strip(request[w].text)

SelectedOf(w) == request[w].selected_entities

EntsOf(w) == processed_doc[w].ents

Handled(w, h) == request[w].handler = h /\ pc[w] = "done"

\* worker w serves /save and has built the runs of its paragraph
SaveBuilt(w) == request[w].handler = "save" /\ calls[w] # <<>>

\* the entities of worker w's document whose label is selected, in order
ChosenEnts(w) ==
    LET chosen(e) == e.label \in SelectedOf(w)
    IN  SelectSeq(EntsOf(w), chosen)

StyledRuns(runs) ==
    LET styled(r) == r.bold
    IN  SelectSeq(runs, styled)

\* C1 (lossless partition): whenever save_results has built its paragraph from
\* a non-empty text and a sorted, non-overlapping entity list, the texts of the
\* runs, concatenated in order, are the text.
C1_LosslessPartition ==
    \A w \in Workers :
        (SaveBuilt(w) /\ SortedDisjoint(EntsOf(w)))
            => RunTexts(para[w]) = TextOf(w)

\* a saved paragraph made of a gap run, an entity run and a remainder run
C1_Witness ==
    \E w \in Workers :
        /\ Handled(w, "save") /\ response[w].status = 200
        /\ Len(para[w]) = 3
        /\ ~para[w][1].bold /\ para[w][2].bold /\ ~para[w][3].bold

\* C2 (filter correctness): the styled runs of the paragraph are exactly the
\* entities whose label is selected, in order, each bold and in its label's
\* colour; an entity whose label is not selected yields no styled run, and an
\* empty selection yields none at all.
C2_FilterCorrectness ==
    \A w \in Workers :
        SaveBuilt(w) =>
            LET styled == StyledRuns(para[w])
                chosen == ChosenEnts(w)
            IN  /\ Len(styled) = Len(chosen)
                /\ \A i \in 1..Len(styled) :
                       /\ styled[i].label \in SelectedOf(w)
                       /\ styled[i].label = chosen[i].label
                       /\ styled[i].rgb = ExportColor(chosen[i].label)
                       /\ styled[i].text =
                              Slice(TextOf(w), chosen[i].start_char, chosen[i].end_char)
                /\ \A i \in 1..Len(para[w]) :
                       ~para[w][i].bold => para[w][i].label = "" /\ para[w][i].rgb = <<>>
                /\ SelectedOf(w) = {} => styled = <<>>

\* a saved document with one entity selected and one entity filtered out
C2_Witness ==
    \E w \in Workers :
        /\ Handled(w, "save") /\ response[w].status = 200
        /\ Len(ChosenEnts(w)) = 1
        /\ Len(EntsOf(w)) = 2

\* C3 (no empty segments): no run of the paragraph has an empty text.
C3_NoEmptySegments ==
    \A w \in Workers :
        (SaveBuilt(w) /\ SortedDisjoint(EntsOf(w)))
            => \A i \in 1..Len(para[w]) : para[w][i].text # <<>>

\* two selected entities, the first from offset 0, the second from where the
\* first ends to the end of the text: two runs, no plain run at any boundary
C3_Witness ==
    \E w \in Workers :
        /\ Handled(w, "save") /\ response[w].status = 200
        /\ Len(ChosenEnts(w)) = 2
        /\ ChosenEnts(w)[1].start_char = 0
        /\ ChosenEnts(w)[1].end_char = ChosenEnts(w)[2].start_char
        /\ ChosenEnts(w)[2].end_char = Len(TextOf(w))
        /\ Len(para[w]) = 2

\* a styled run whose label is not in S becomes a plain run
Demote(runs, S) ==
    [i \in 1..Len(runs) |->
        IF runs[i].bold /\ runs[i].label \notin S
        THEN [text |-> runs[i].text, bold |-> FALSE, rgb |-> <<>>, label |-> ""]
        ELSE runs[i]]

RECURSIVE MergePlain(_)
\* adjacent plain runs joined into one
MergePlain(runs) ==
    IF Len(runs) < 2 THEN runs
    ELSE IF ~runs[1].bold /\ ~runs[2].bold
         THEN MergePlain(<<[runs[1] EXCEPT !.text = runs[1].text \o runs[2].text]>>
                         \o SubSeq(runs, 3, Len(runs)))
         ELSE <<runs[1]>> \o MergePlain(Tail(runs))

\* C4 (idempotent re-filtering): the paragraph built for a selection S is the
\* paragraph built for every label, with the styled runs outside S demoted to
\* plain and adjacent plain runs merged; no two plain runs are consecutive, and
\* for the empty selection the paragraph is one plain run holding the text.
C4_Refiltering ==
    \A w \in Workers :
        (SaveBuilt(w) /\ SortedDisjoint(EntsOf(w))) =>
            /\ para[w] = MergePlain(Demote(
                   BuildParagraph(TextOf(w), EntsOf(w), ModelLabels \cup SelectedOf(w)),
                   SelectedOf(w)))
            /\ \A i \in 1..Len(para[w]) - 1 : para[w][i].bold \/ para[w][i + 1].bold
            /\ SelectedOf(w) = {} =>
                   para[w] = <<[text |-> TextOf(w), bold |-> FALSE,
                                rgb |-> <<>>, label |-> ""]>>

\* an entity that is not selected and the gap before it make up the one plain
\* run that precedes a selected entity
C4_Witness ==
    \E w \in Workers :
        /\ Handled(w, "save") /\ response[w].status = 200
        /\ Len(EntsOf(w)) = 2
        /\ EntsOf(w)[1].label \notin SelectedOf(w)
        /\ EntsOf(w)[2].label \in SelectedOf(w)
        /\ EntsOf(w)[1].start_char > 0
        /\ EntsOf(w)[1].end_char <= EntsOf(w)[2].start_char
        /\ Len(para[w]) = 2
        /\ para[w][1].text = Slice(TextOf(w), 0, EntsOf(w)[2].start_char)

NlpCalled(w) == \E i \in 1..Len(calls[w]) : calls[w][i].fn = "nlp"

\* the handler answered with an error alone and produced nothing else
RejectedEmpty(w) ==
    /\ response[w].status = 400
    /\ DOMAIN response[w].body = {"error"}
    /\ ~NlpCalled(w)
    /\ para[w] = <<>>
    /\ file_path \notin DOMAIN fs

\* C5 as stated: filter_entities, save_results and stats each reject a text that
\* is empty after stripping with a client error, without invoking nlp and
\* without any partial result.
C5_EmptyInputAllHandlers ==
    \A w \in Workers :
        ((Handled(w, "filter") \/ Handled(w, "save") \/ Handled(w, "stats"))
            /\ TextOf(w) = <<>>) => RejectedEmpty(w)

\* C5 amended: save_results and stats reject a text that is empty after
\* stripping with status 400, without invoking nlp and without any partial
\* result; filter_entities has no such check: it invokes nlp on the stripped
\* text, empty or not, and answers 200 with the rendered html.
C5_EmptyInputSaveStats ==
    \A w \in Workers :
        /\ ((Handled(w, "save") \/ Handled(w, "stats")) /\ TextOf(w) = <<>>)
               => RejectedEmpty(w)
        /\ ((Handled(w, "save") \/ Handled(w, "stats")) /\ TextOf(w) # <<>>)
               => (response[w].status = 200 /\ NlpCalled(w))
        /\ Handled(w, "filter") =>
               /\ calls[w] = <<[fn |-> "nlp", arg |-> TextOf(w)]>>
               /\ response[w].status = 200
               /\ DOMAIN response[w].body = {"html"}

\* /stats has answered a text of whitespace only
C5_Witness ==
    \E w \in Workers :
        /\ Handled(w, "stats")
        /\ request[w].text # <<>> /\ TextOf(w) = <<>>
        /\ response[w].status = 400

CallsOf(w) == [i \in 1..Len(calls[w]) |-> calls[w][i].fn]

\* C6 (unsupported format blocks extraction): upload_file reads the file and
\* invokes an extractor only if a file is present, its name is non-empty and
\* its lower-cased name ends with .pdf or .docx; otherwise it answers 400 and
\* invokes nothing; when the checks pass it invokes exactly the extractor of
\* the extension.
C6_UnsupportedFormat ==
    \A w \in Workers :
        Handled(w, "upload") =>
            LET lowered == [i \in 1..Len(request[w].filename) |->
                               LowerChar(request[w].filename[i])]
                isPdf == EndsWith(lowered, <<".", "p", "d", "f">>)
                isDocx == EndsWith(lowered, <<".", "d", "o", "c", "x">>)
                accepted == /\ request[w].has_file
                            /\ request[w].filename # <<>>
                            /\ (isPdf \/ isDocx)
            IN  /\ ~accepted => (calls[w] = <<>> /\ response[w].status = 400
                                    /\ DOMAIN response[w].body = {"error"})
                /\ (accepted /\ isPdf) =>
                       (CallsOf(w) = <<"file.read", "extract_text_from_pdf">>
                           /\ response[w].status = 200)
                /\ (accepted /\ isDocx) =>
                       (CallsOf(w) = <<"file.read", "extract_text_from_docx">>
                           /\ response[w].status = 200)

\* an upload named A.PDF has been extracted as a PDF
C6_Witness ==
    \E w \in Workers :
        /\ Handled(w, "upload")
        /\ request[w].filename = <<"A", ".", "P", "D", "F">>
        /\ CallsOf(w) = <<"file.read", "extract_text_from_pdf">>
        /\ response[w].status = 200

\* C7 as stated: a /save request that has saved its document and is about to
\* answer success finds, at file_path, the runs built from its own text and
\* selection, whatever the other requests do.
C7_IndependentSaves ==
    \A w \in Workers :
        pc[w] = "save_saved" =>
            (file_path \in DOMAIN fs /\ fs[file_path] = para[w])

\* a / b as a fraction equals the quotient n / d
IsQuotient(q, n, d) == q.den > 0 /\ q.num * d = n * q.den

\* C8 (safe division): stats never fails on a division; entity_density is
\* entity_count / token_count when token_count > 0 and 0 otherwise;
\* avg_sentence_length is the mean of sentence_lengths when there is a
\* sentence and 0 otherwise; lengths 5 and 7 average to 6.
C8_SafeDivision ==
    \A w \in Workers :
        (Handled(w, "stats") /\ NlpCalled(w)) =>
            /\ response[w].status = 200
            /\ LET r == response[w].body
                   doc == processed_doc[w]
               IN  /\ r.token_count = doc.ntokens
                   /\ r.entity_count = Len(doc.ents)
                   /\ r.sentence_lengths = doc.sents
                   /\ IF doc.ntokens > 0
                      THEN IsQuotient(r.entity_density, Len(doc.ents), doc.ntokens)
                      ELSE r.entity_density = [num |-> 0, den |-> 1]
                   /\ IF Len(doc.sents) > 0
                      THEN IsQuotient(r.avg_sentence_length,
                                      SumSeq(doc.sents), Len(doc.sents))
                      ELSE r.avg_sentence_length = [num |-> 0, den |-> 1]
                   /\ doc.sents = <<5, 7>> =>
                          r.avg_sentence_length = [num |-> 6, den |-> 1]

\* a report on a document without tokens and without sentences
C8_Witness ==
    \E w \in Workers :
        /\ Handled(w, "stats") /\ response[w].status = 200
        /\ response[w].body.token_count = 0
        /\ response[w].body.sentence_lengths = <<>>
        /\ response[w].body.entity_density.num = 0
        /\ response[w].body.avg_sentence_length.num = 0

RECURSIVE SumOver(_, _)
\* the sum of f over the set S
SumOver(f, S) ==
    IF S = {} THEN 0
    ELSE LET x == CHOOSE y \in S : TRUE
         IN  f[x] + SumOver(f, S \ {x})

\* C9 (distribution completeness): the values of entity_distribution sum to
\* entity_count; each key is a label of some entity and counts the entities
\* with that label, so is at least 1; named_entity_length_distribution has one
\* entry per entity, in the entities' order.
C9_DistributionComplete ==
    \A w \in Workers :
        (Handled(w, "stats") /\ NlpCalled(w)) =>
            LET r == response[w].body
                ents == processed_doc[w].ents
                dist == r.entity_distribution
            IN  /\ r.entity_count = Len(ents)
                /\ SumOver(dist, DOMAIN dist) = r.entity_count
                /\ DOMAIN dist = {ents[i].label : i \in 1..Len(ents)}
                /\ \A l \in DOMAIN dist :
                       /\ dist[l] = Cardinality({i \in 1..Len(ents) : ents[i].label = l})
                       /\ dist[l] >= 1
                /\ Len(r.named_entity_length_distribution) = r.entity_count
                /\ \A i \in 1..Len(ents) :
                       r.named_entity_length_distribution[i] = ents[i].ntok

\* a report on two entities of one label, of one and of two tokens
C9_Witness ==
    \E w \in Workers :
        /\ Handled(w, "stats") /\ response[w].status = 200
        /\ response[w].body.entity_count = 2
        /\ DOMAIN response[w].body.entity_distribution = {"PERSON"}
        /\ response[w].body.entity_distribution["PERSON"] = 2
        /\ response[w].body.named_entity_length_distribution = <<1, 2>>

\* C10 as stated: when the selected entities are not sorted by start_char or
\* overlap, save_results never answers success with a document whose run texts,
\* concatenated, differ from the text.
C10_FailSafe ==
    \A w \in Workers :
        (Handled(w, "save") /\ response[w].status = 200
            /\ ~SortedDisjoint(ChosenEnts(w)))
            => (file_path \in DOMAIN fs /\ RunTexts(fs[file_path]) = TextOf(w))

=============================================================================
